---- MODULE Spec2Model ----
(***************************************************************************)
(* A model of the 6502 core of nes-emu (src/src/cpu.rs) running over the   *)
(* test memory MockBus.  The CPU fields are the variables; step() and the  *)
(* public setters are the actions.                                         *)
(***************************************************************************)
EXTENDS Integers, Sequences, FiniteSets

VARIABLES
    ac, x, y,          \* CPU.ac, CPU.x, CPU.y            (u8)
    pc,                \* CPU.pc                          (u16)
    sp,                \* CPU.sp                          (u8)
    sr,                \* CPU.sr, the bits of CpuFlags    (u8)
    mem,               \* CPU.bus: bytes written over the background image
    overflow_checks,   \* the build checks integer overflow (debug profile)
    halted,            \* "none", or the panic that ended the process
    ret,               \* <<n>> when the last step() returned n, else <<>>
    pre, pre2,         \* CPU before the last step() and before the one before it
    since,             \* setters and helpers called since the last step()
    nsteps, nsets,     \* calls made so far
    touched,           \* addresses push_stack / pull_stack accessed in the last step()
    bus,               \* a Bus of bus.rs: its ram and ppu arrays
    bus_call,          \* the last call on the Bus and the Bus before it
    nbus               \* calls made on the Bus so far

vars == <<ac, x, y, pc, sp, sr, mem, overflow_checks, halted, ret,
          pre, pre2, since, nsteps, nsets, touched, bus, bus_call, nbus>>

----------------------------------------------------------------------------
(* Bounds of the exploration *)
MaxSteps == 2
MaxSets == 2
MaxBusCalls == 2

----------------------------------------------------------------------------
(* u8 / u16 arithmetic and bit operations *)
U8 == 256
U16 == 65536

RECURSIVE BitAnd(_, _)
BitAnd(a, b) ==
    IF a = 0 \/ b = 0 THEN 0
    ELSE (a % 2) * (b % 2) + 2 * BitAnd(a \div 2, b \div 2)

RECURSIVE BitOr(_, _)
BitOr(a, b) ==
    IF a = 0 THEN b
    ELSE IF b = 0 THEN a
    ELSE (IF a % 2 = 1 \/ b % 2 = 1 THEN 1 ELSE 0) + 2 * BitOr(a \div 2, b \div 2)

(* CpuFlags *)
CARRY == 1
ZERO == 2
INTERRUPT_DISABLE == 4
DECIMAL_MODE == 8
BREAK == 16
UNUSED == 32
OVERFLOW == 64
NEGATIVE == 128
ALL_FLAGS == CARRY + ZERO + INTERRUPT_DISABLE + DECIMAL_MODE + BREAK + UNUSED
             + OVERFLOW + NEGATIVE

(* CpuFlags::from_bits_truncate: keeps the bits that name a flag *)
from_bits_truncate(v) == BitAnd(v, ALL_FLAGS)

----------------------------------------------------------------------------
(* MockBus: a 64 KiB array the host fills (load, write) before it hands the *)
(* bus to CPU::new.  Fill is the data image it holds, a different byte on   *)
(* neighbouring cells and neighbouring pages; mem holds the bytes stored    *)
(* over it: the program, and what step() wrote.                             *)
Fill(a) == ((a % 256) + 3 * (a \div 256)) % 256

read(m, a) == IF a \in DOMAIN m THEN m[a] ELSE Fill(a)

write(m, a, v) == [b \in (DOMAIN m) \cup {a} |-> IF b = a THEN v ELSE m[b]]

(* MockBus::load *)
load(m, addr, bytes) ==
    [b \in (DOMAIN m) \cup {addr + i - 1 : i \in 1..Len(bytes)} |->
        IF b >= addr /\ b < addr + Len(bytes) THEN bytes[b - addr + 1] ELSE m[b]]

----------------------------------------------------------------------------
(* The CPU as a record, so that the helpers of step() can be composed *)
Cpu == [ac |-> ac, x |-> x, y |-> y, pc |-> pc, sp |-> sp, sr |-> sr,
        mem |-> mem, halted |-> halted, touched |-> <<>>]

get_flag(c, flag) == BitAnd(c.sr, flag) = flag

(* a flag that is set and never cleared *)
set_flag_never_clears(c, flag, value) ==
    [c EXCEPT !.sr = IF value THEN BitOr(c.sr, flag) ELSE c.sr]

set_flag(c, flag, value) ==
    [c EXCEPT !.sr = IF value THEN BitOr(c.sr, flag)
                     ELSE BitAnd(c.sr, ALL_FLAGS - flag)]

(* the Negative flag taken from bit 6 instead of bit 7 *)
set_zero_and_negative_flag_bit6(c, value) ==
    set_flag(set_flag(c, ZERO, value = 0), NEGATIVE, BitAnd(value, 64) # 0)

set_zero_and_negative_flag(c, value) ==
    set_flag(set_flag(c, ZERO, value = 0), NEGATIVE, BitAnd(value, 128) # 0)

(* the program counter stuck at 0xFFFF *)
inc_pc_saturating(c) == [c EXCEPT !.pc = IF c.pc = U16 - 1 THEN c.pc ELSE c.pc + 1]

inc_pc(c) == [c EXCEPT !.pc = (c.pc + 1) % U16]

(* the two bytes taken in the other order *)
get_address_big_endian(lsb, msb) == BitOr((lsb * 256) % U16, msb)

get_address(lsb, msb) == BitOr((msb * 256) % U16, lsb)

peek_stack(c) == read(c.mem, c.sp + 256 + 1)

(* self.sp -= 1 and self.sp += 1 are unchecked u8 operations: they wrap in a *)
(* build without overflow checks and panic in a build with them.             *)
push_stack(c, value) ==
    LET w == [c EXCEPT !.mem = write(c.mem, c.sp + 256, value),
                       !.touched = Append(@, c.sp + 256)]
    IN  IF w.sp = 0
        THEN IF overflow_checks THEN [w EXCEPT !.halted = "overflow"]
             ELSE [w EXCEPT !.sp = 255]
        ELSE [w EXCEPT !.sp = w.sp - 1]

(* the pulled byte addressed from the old SP without wrapping *)
pull_stack_past_page(c) ==
    LET c1 == IF c.sp = 255
              THEN IF overflow_checks THEN [c EXCEPT !.halted = "overflow"]
                   ELSE [c EXCEPT !.sp = 0]
              ELSE [c EXCEPT !.sp = c.sp + 1]
        c2 == IF c1.halted = "none"
              THEN [c1 EXCEPT !.touched = Append(@, c.sp + 1 + 256)]
              ELSE c1
    IN  [c |-> c2, val |-> read(c1.mem, c.sp + 1 + 256)]

(* pull_stack returns the CPU after the pull and the byte read *)
pull_stack(c) ==
    LET c1 == IF c.sp = 255
              THEN IF overflow_checks THEN [c EXCEPT !.halted = "overflow"]
                   ELSE [c EXCEPT !.sp = 0]
              ELSE [c EXCEPT !.sp = c.sp + 1]
        c2 == IF c1.halted = "none"
              THEN [c1 EXCEPT !.touched = Append(@, c1.sp + 256)]
              ELSE c1
    IN  [c |-> c2, val |-> read(c1.mem, c1.sp + 256)]

----------------------------------------------------------------------------
(* Addressing modes: each returns the CPU with pc advanced, the effective   *)
(* address and the page-cross penalty (0 where the code reports none).      *)
addr_absolute(c) ==
    LET lsb == read(c.mem, c.pc)
        c1 == inc_pc(c)
        msb == read(c1.mem, c1.pc)
        c2 == inc_pc(c1)
    IN  [c |-> c2, addr |-> get_address(lsb, msb), p |-> 0]

(* the addresses compared whole instead of their high bytes *)
cross_page_boundary_cycle_penalty_unmasked(base_addr, effective_addr) ==
    IF base_addr # effective_addr THEN 1 ELSE 0

cross_page_boundary_cycle_penalty(base_addr, effective_addr) ==
    IF BitAnd(base_addr, 65280) # BitAnd(effective_addr, 65280) THEN 1 ELSE 0

addr_absolute_x(c) ==
    LET b == addr_absolute(c)
        effective_addr == (b.addr + b.c.x) % U16
    IN  [c |-> b.c, addr |-> effective_addr,
         p |-> cross_page_boundary_cycle_penalty(b.addr, effective_addr)]

addr_absolute_y_indexed_by_x(c) ==
    LET b == addr_absolute(c)
        absolute_addr == (b.addr + c.x) % U16
    IN  [c |-> b.c, addr |-> absolute_addr,
         p |-> cross_page_boundary_cycle_penalty(b.addr, absolute_addr)]

addr_absolute_y(c) ==
    LET b == addr_absolute(c)
        effective_addr == (b.addr + b.c.y) % U16
    IN  [c |-> b.c, addr |-> effective_addr,
         p |-> cross_page_boundary_cycle_penalty(b.addr, effective_addr)]

addr_absolute_indirect_next_byte(c) ==
    LET b == addr_absolute(c)
        lsb == read(b.c.mem, b.addr)
        msb == read(b.c.mem, (b.addr + 1) % U16)
    IN  [b.c EXCEPT !.pc = get_address(lsb, msb)]

(* addr_absolute_indirect returns nothing: it leaves the target in pc *)
addr_absolute_indirect(c) ==
    LET b == addr_absolute(c)
        lsb == read(b.c.mem, b.addr)
        msb == IF BitAnd(b.addr, 255) = 255
               THEN read(b.c.mem, BitAnd(b.addr, 65280))
               ELSE read(b.c.mem, (b.addr + 1) % U16)
    IN  [b.c EXCEPT !.pc = get_address(lsb, msb)]

addr_zero_page(c) ==
    LET lsb == read(c.mem, c.pc)
    IN  [c |-> inc_pc(c), addr |-> get_address(lsb, 0), p |-> 0]

(* the index added in 16 bits, leaving page 0 *)
addr_zero_page_x_unwrapped(c) ==
    LET lsb == read(c.mem, c.pc)
    IN  [c |-> inc_pc(c), addr |-> (lsb + c.x) % U16, p |-> 0]

addr_zero_page_x(c) ==
    LET lsb == read(c.mem, c.pc)
    IN  [c |-> inc_pc(c), addr |-> (lsb + c.x) % U8, p |-> 0]

addr_zero_page_y(c) ==
    LET lsb == read(c.mem, c.pc)
    IN  [c |-> inc_pc(c), addr |-> (lsb + c.y) % U8, p |-> 0]

(* the high byte of the pointer read past page 0 *)
addr_zero_page_x_indirect_crossing(c) ==
    LET zp == read(c.mem, c.pc)
        c1 == inc_pc(c)
        ptr == (zp + c1.x) % U8
        lsb == read(c1.mem, ptr)
        msb == read(c1.mem, (ptr + 1) % U16)
    IN  [c |-> c1, addr |-> get_address(lsb, msb), p |-> 0]

addr_zero_page_x_indirect(c) ==
    LET zp == read(c.mem, c.pc)
        c1 == inc_pc(c)
        ptr == (zp + c1.x) % U8
        lsb == read(c1.mem, ptr)
        msb == read(c1.mem, BitAnd((ptr + 1) % U16, 255))
    IN  [c |-> c1, addr |-> get_address(lsb, msb), p |-> 0]

(* the carry of the low byte dropped *)
addr_zero_page_y_indirect_no_carry(c) ==
    LET zp_addr == read(c.mem, c.pc)
        c1 == inc_pc(c)
        lsb == read(c1.mem, zp_addr)
        msb == read(c1.mem, BitAnd((zp_addr + 1) % U16, 255))
        base_addr == get_address(lsb, msb)
        new_lsb == (c1.y + lsb) % U8
        effective_addr == new_lsb + 256 * msb
    IN  [c |-> c1, addr |-> effective_addr,
         p |-> cross_page_boundary_cycle_penalty(base_addr, effective_addr)]

addr_zero_page_y_indirect(c) ==
    LET zp_addr == read(c.mem, c.pc)
        c1 == inc_pc(c)
        lsb == read(c1.mem, zp_addr)
        msb == read(c1.mem, BitAnd((zp_addr + 1) % U16, 255))
        base_addr == get_address(lsb, msb)
        overflow == c1.y + lsb >= U8
        new_lsb == (c1.y + lsb) % U8
        new_msb == (msb + (IF overflow THEN 1 ELSE 0)) % U8
        effective_addr == new_lsb + 256 * new_msb
    IN  [c |-> c1, addr |-> effective_addr,
         p |-> cross_page_boundary_cycle_penalty(base_addr, effective_addr)]

(* `as i8`: a byte read as a two's-complement number *)
as_i8(v) == IF v >= 128 THEN v - U8 ELSE v

(* the offset added as an unsigned byte *)
addr_relative_unsigned(c) ==
    LET offset == read(c.mem, c.pc)
        c1 == inc_pc(c)
        base_addr == c1.pc
        effective_addr == (base_addr + offset) % U16
    IN  [c |-> [c1 EXCEPT !.pc = effective_addr], addr |-> effective_addr,
         p |-> cross_page_boundary_cycle_penalty(base_addr, effective_addr)]

(* addr_relative leaves the effective address in pc and returns it *)
addr_relative(c) ==
    LET offset == as_i8(read(c.mem, c.pc))
        c1 == inc_pc(c)
        base_addr == c1.pc
        effective_addr == (base_addr + offset + U16) % U16
    IN  [c |-> [c1 EXCEPT !.pc = effective_addr], addr |-> effective_addr,
         p |-> cross_page_boundary_cycle_penalty(base_addr, effective_addr)]

(* the operand of the immediate opcodes: the byte at pc *)
addr_immediate(c) == [c |-> inc_pc(c), addr |-> c.pc, p |-> 0]

----------------------------------------------------------------------------
(* CPU::asl and CPU::lsr *)
asl(value) == [val |-> (value * 2) % U8, carry |-> BitAnd(value, 128) # 0]

(* the carry taken from bit 7, as asl takes it *)
lsr_carry_from_bit7(value) ==
    [val |-> value \div 2, carry |-> BitAnd(value, 128) # 0]

lsr(value) == [val |-> value \div 2, carry |-> BitAnd(value, 1) # 0]

----------------------------------------------------------------------------
(* The arms of step().  m is the result of the arm's addressing mode; each  *)
(* arm gives the CPU after it and the value of the local `cycles`.          *)
lda(m, cyc) ==
    LET value == read(m.c.mem, m.addr)
    IN  [c |-> set_zero_and_negative_flag([m.c EXCEPT !.ac = value], value),
         cycles |-> cyc]

(* the value loaded through the accumulator *)
ldx_through_a(m, cyc) ==
    LET value == read(m.c.mem, m.addr)
    IN  [c |-> set_zero_and_negative_flag([m.c EXCEPT !.ac = value, !.x = value],
                                          value),
         cycles |-> cyc]

ldx(m, cyc) ==
    LET value == read(m.c.mem, m.addr)
    IN  [c |-> set_zero_and_negative_flag([m.c EXCEPT !.x = value], value),
         cycles |-> cyc]

ldy(m, cyc) ==
    LET value == read(m.c.mem, m.addr)
    IN  [c |-> set_zero_and_negative_flag([m.c EXCEPT !.y = value], value),
         cycles |-> cyc]

(* a store that updates Zero and Negative as a load does *)
store_sets_flags(m, value, cyc) ==
    [c |-> set_zero_and_negative_flag(
               [m.c EXCEPT !.mem = write(m.c.mem, m.addr, value)], value),
     cycles |-> cyc]

store(m, value, cyc) ==
    [c |-> [m.c EXCEPT !.mem = write(m.c.mem, m.addr, value)], cycles |-> cyc]

(* the transfer, stack and shift arms never assign `cycles`: it keeps the 0 *)
(* it was initialised with                                                  *)
tax(c) == [c |-> set_zero_and_negative_flag([c EXCEPT !.x = c.ac], c.ac), cycles |-> 0]
tay(c) == [c |-> set_zero_and_negative_flag([c EXCEPT !.y = c.ac], c.ac), cycles |-> 0]
tsx(c) == [c |-> set_zero_and_negative_flag([c EXCEPT !.x = c.sp], c.sp), cycles |-> 0]
txa(c) == [c |-> set_zero_and_negative_flag([c EXCEPT !.ac = c.x], c.x), cycles |-> 0]
(* TXS updating Zero and Negative as the other transfers do *)
txs_sets_flags(c) ==
    [c |-> set_zero_and_negative_flag([c EXCEPT !.sp = c.x], c.x), cycles |-> 0]

txs(c) == [c |-> [c EXCEPT !.sp = c.x], cycles |-> 0]
tya(c) == [c |-> set_zero_and_negative_flag([c EXCEPT !.ac = c.y], c.y), cycles |-> 0]

pha(c) == [c |-> push_stack(c, c.ac), cycles |-> 0]

(* the pushed copy with the Break bit set *)
php_with_break(c) == [c |-> push_stack(c, BitOr(c.sr, BREAK)), cycles |-> 0]

php(c) == [c |-> push_stack(c, c.sr), cycles |-> 0]

pla(c) ==
    LET r == pull_stack(c)
    IN  [c |-> IF r.c.halted # "none" THEN r.c
               ELSE set_zero_and_negative_flag([r.c EXCEPT !.ac = r.val], r.val),
         cycles |-> 0]

plp(c) ==
    LET r == pull_stack(c)
    IN  [c |-> IF r.c.halted # "none" THEN r.c
               ELSE [r.c EXCEPT !.sr = from_bits_truncate(r.val)],
         cycles |-> 0]

asl_a(c) ==
    LET s == asl(c.ac)
    IN  [c |-> set_zero_and_negative_flag(
                   set_flag([c EXCEPT !.ac = s.val], CARRY, s.carry), s.val),
         cycles |-> 0]

asl_m(m) ==
    LET s == asl(read(m.c.mem, m.addr))
    IN  [c |-> set_zero_and_negative_flag(
                   set_flag([m.c EXCEPT !.mem = write(m.c.mem, m.addr, s.val)],
                            CARRY, s.carry), s.val),
         cycles |-> 0]

lsr_a(c) ==
    LET s == lsr(c.ac)
    IN  [c |-> set_zero_and_negative_flag(
                   set_flag([c EXCEPT !.ac = s.val], CARRY, s.carry), s.val),
         cycles |-> 0]

lsr_m(m) ==
    LET s == lsr(read(m.c.mem, m.addr))
    IN  [c |-> set_zero_and_negative_flag(
                   set_flag([m.c EXCEPT !.mem = write(m.c.mem, m.addr, s.val)],
                            CARRY, s.carry), s.val),
         cycles |-> 0]

(* the default arm falling through as a no-op *)
invalid_opcode_nop(c) == [c |-> c, cycles |-> 0]

(* other => panic!("Invalid opcode: {other}") *)
invalid_opcode(c) == [c |-> [c EXCEPT !.halted = "illegal_opcode"], cycles |-> 0]

(* The opcodes step() has an arm for *)
LoadOpcodes == {169, 173, 189, 185, 165, 181, 161, 177,
                162, 174, 190, 166, 182,
                160, 172, 188, 164, 180}
StoreOpcodes == {141, 157, 153, 133, 149, 129, 145,
                 142, 134, 150,
                 140, 132, 148}
TransferOpcodes == {170, 168, 186, 138, 154, 152}
StackOpcodes == {72, 8, 104, 40}
ShiftOpcodes == {10, 14, 30, 6, 22, 74, 78, 94, 70, 86}
DefinedOpcodes == LoadOpcodes \cup StoreOpcodes \cup TransferOpcodes
                  \cup StackOpcodes \cup ShiftOpcodes

(* step(): fetch, decode, execute.  c is the CPU at the call. *)
exec(c0) ==
    LET opcode == read(c0.mem, c0.pc)
        c == inc_pc(c0)
    IN  CASE opcode = 169 -> lda(addr_immediate(c), 2)                       \* A9
          [] opcode = 173 -> lda(addr_absolute(c), 4)                        \* AD
          [] opcode = 189 -> LET m == addr_absolute_x(c) IN lda(m, 0 + 4 + m.p)  \* BD
          [] opcode = 185 -> LET m == addr_absolute_y(c) IN lda(m, 0 + 4 + m.p)  \* B9
          [] opcode = 165 -> lda(addr_zero_page(c), 3)                       \* A5
          [] opcode = 181 -> lda(addr_zero_page_x(c), 4)                     \* B5
          [] opcode = 161 -> lda(addr_zero_page_x_indirect(c), 6)            \* A1
          [] opcode = 177 -> LET m == addr_zero_page_y_indirect(c) IN lda(m, 5 + m.p) \* B1
          [] opcode = 162 -> ldx(addr_immediate(c), 2)                       \* A2
          [] opcode = 174 -> ldx(addr_absolute(c), 4)                        \* AE
          [] opcode = 190 -> LET m == addr_absolute_y(c) IN ldx(m, 0 + 4 + m.p)  \* BE
          [] opcode = 166 -> ldx(addr_zero_page(c), 3)                       \* A6
          [] opcode = 182 -> ldx(addr_zero_page_y(c), 4)                     \* B6
          [] opcode = 160 -> ldy(addr_immediate(c), 2)                       \* A0
          [] opcode = 172 -> ldy(addr_absolute(c), 4)                        \* AC
          [] opcode = 188 -> LET m == addr_absolute_x(c) IN ldy(m, 0 + 4 + m.p)  \* BC
          [] opcode = 164 -> ldy(addr_zero_page(c), 3)                       \* A4
          [] opcode = 180 -> ldy(addr_zero_page_x(c), 4)                     \* B4
          [] opcode = 141 -> LET m == addr_absolute(c) IN store(m, m.c.ac, 4)        \* 8D
          [] opcode = 157 -> LET m == addr_absolute_x(c) IN store(m, m.c.ac, 5)      \* 9D
          [] opcode = 153 -> LET m == addr_absolute_y(c) IN store(m, m.c.ac, 5)      \* 99
          [] opcode = 133 -> LET m == addr_zero_page(c) IN store(m, m.c.ac, 3)       \* 85
          [] opcode = 149 -> LET m == addr_zero_page_x(c) IN store(m, m.c.ac, 4)     \* 95
          [] opcode = 129 -> LET m == addr_zero_page_x_indirect(c) IN store(m, m.c.ac, 6) \* 81
          [] opcode = 145 -> LET m == addr_zero_page_y_indirect(c) IN store(m, m.c.ac, 6) \* 91
          [] opcode = 142 -> LET m == addr_absolute(c) IN store(m, m.c.x, 3)         \* 8E
          [] opcode = 134 -> LET m == addr_zero_page(c) IN store(m, m.c.x, 2)        \* 86
          [] opcode = 150 -> LET m == addr_zero_page_y(c) IN store(m, m.c.x, 2)      \* 96
          [] opcode = 140 -> LET m == addr_absolute(c) IN store(m, m.c.y, 4)         \* 8C
          [] opcode = 132 -> LET m == addr_zero_page(c) IN store(m, m.c.y, 3)        \* 84
          [] opcode = 148 -> LET m == addr_zero_page_x(c) IN store(m, m.c.y, 4)      \* 94
          [] opcode = 170 -> tax(c)                                          \* AA
          [] opcode = 168 -> tay(c)                                          \* A8
          [] opcode = 186 -> tsx(c)                                          \* BA
          [] opcode = 138 -> txa(c)                                          \* 8A
          [] opcode = 154 -> txs(c)                                          \* 9A
          [] opcode = 152 -> tya(c)                                          \* 98
          [] opcode = 72 -> pha(c)                                           \* 48
          [] opcode = 8 -> php(c)                                            \* 08
          [] opcode = 104 -> pla(c)                                          \* 68
          [] opcode = 40 -> plp(c)                                           \* 28
          [] opcode = 10 -> asl_a(c)                                         \* 0A
          [] opcode = 14 -> asl_m(addr_absolute(c))                          \* 0E
          [] opcode = 30 -> asl_m(addr_absolute_x(c))                        \* 1E
          [] opcode = 6 -> asl_m(addr_zero_page(c))                          \* 06
          [] opcode = 22 -> asl_m(addr_zero_page_x(c))                       \* 16
          [] opcode = 74 -> lsr_a(c)                                         \* 4A
          [] opcode = 78 -> lsr_m(addr_absolute(c))                          \* 4E
          [] opcode = 94 -> lsr_m(addr_absolute_x(c))                        \* 5E
          [] opcode = 70 -> lsr_m(addr_zero_page(c))                         \* 46
          [] opcode = 86 -> lsr_m(addr_zero_page_x(c))                       \* 56
          [] OTHER -> invalid_opcode(c)

----------------------------------------------------------------------------
(* The inputs: the program the bus holds at address 0 when the CPU is built, *)
(* and the bytes the host passes to the setters.                             *)
OperandPairs == {<<255, 0>>, <<128, 2>>, <<2, 0>>, <<255, 255>>}

Programs ==
    {<<op, o[1], o[2]>> : op \in DefinedOpcodes, o \in OperandPairs}
    \cup {<<op, 0, 0>> : op \in (0..255) \ DefinedOpcodes}
    \cup {<<a, b, 0>> : a \in StackOpcodes, b \in StackOpcodes}

(* an instruction the host writes byte by byte at 0xFFFF, 0x0000, 0x0001 *)
ProgramsAtTop == {<<op, 128, 2>> : op \in DefinedOpcodes}

write_around(addr, prog) ==
    write(write(write(<<>>, addr, prog[1]), (addr + 1) % U16, prog[2]),
          (addr + 2) % U16, prog[3])

AccValues == {1, 128}
IndexValues == {1}
SpValues == {0}
StatusValues == {0, 255}
PcValues == {0, 65535}

(* the Bus of bus.rs as Bus::new returns it, with no call made on it *)
Bus_new == [ram |-> <<>>, ppu |-> [i \in 0..6 |-> 0]]

NoBusCall == [op |-> "none", address |-> 0, value |-> 0, before |-> Bus_new,
              prior |-> [op |-> "none", address |-> 0, value |-> 0]]

BusIdle == bus = Bus_new /\ bus_call = NoBusCall /\ nbus = 0

bus_vars == <<bus, bus_call, nbus>>

(* The CPU before a step(), with the setters called since the step before *)
Snapshot == [ac |-> ac, x |-> x, y |-> y, pc |-> pc, sp |-> sp, sr |-> sr,
             mem |-> mem, since |-> since]

(* construction that forgets Interrupt-disable *)
Init_without_interrupt_disable ==
    /\ pc = 0
    /\ sp = 255
    /\ ac = 0
    /\ x = 0
    /\ y = 0
    /\ sr = UNUSED
    /\ \/ \E prog \in Programs : mem = load(<<>>, 0, prog)
       \/ \E prog \in ProgramsAtTop : mem = write_around(65535, prog)
    /\ overflow_checks \in BOOLEAN
    /\ halted = "none"
    /\ ret = <<>>
    /\ pre = [ac |-> 0, x |-> 0, y |-> 0, pc |-> 0, sp |-> 255, sr |-> 36,
              mem |-> <<>>, since |-> {}]
    /\ pre2 = pre
    /\ since = {}
    /\ nsteps = 0
    /\ nsets = 0
    /\ touched = <<>>
    /\ BusIdle

(* CPU::new over a MockBus that holds a program *)
Init ==
    /\ pc = 0
    /\ sp = 255
    /\ ac = 0
    /\ x = 0
    /\ y = 0
    /\ sr = BitOr(UNUSED, INTERRUPT_DISABLE)
    /\ \/ \E prog \in Programs : mem = load(<<>>, 0, prog)
       \/ \E prog \in ProgramsAtTop : mem = write_around(65535, prog)
    /\ overflow_checks \in BOOLEAN
    /\ halted = "none"
    /\ ret = <<>>
    /\ pre = [ac |-> 0, x |-> 0, y |-> 0, pc |-> 0, sp |-> 255, sr |-> 36,
              mem |-> <<>>, since |-> {}]
    /\ pre2 = pre
    /\ since = {}
    /\ nsteps = 0
    /\ nsets = 0
    /\ touched = <<>>
    /\ BusIdle

(* a call of a public setter by the host *)
Called(name) ==
    /\ halted = "none"
    /\ nsets < MaxSets
    /\ nsets' = nsets + 1
    /\ since' = since \cup {name}
    /\ UNCHANGED <<mem, overflow_checks, halted, ret, pre, pre2, nsteps, touched>>
    /\ UNCHANGED bus_vars

set_a ==
    \E v \in AccValues :
        /\ Called("set_a")
        /\ ac' = v
        /\ UNCHANGED <<x, y, pc, sp, sr>>

set_x ==
    \E v \in IndexValues :
        /\ Called("set_x")
        /\ x' = v
        /\ UNCHANGED <<ac, y, pc, sp, sr>>

set_y ==
    \E v \in IndexValues :
        /\ Called("set_y")
        /\ y' = v
        /\ UNCHANGED <<ac, x, pc, sp, sr>>

set_pc ==
    \E v \in PcValues :
        /\ Called("set_pc")
        /\ pc' = v
        /\ UNCHANGED <<ac, x, y, sp, sr>>

set_sp ==
    \E v \in SpValues :
        /\ Called("set_sp")
        /\ sp' = v
        /\ UNCHANGED <<ac, x, y, pc, sr>>

set_p ==
    \E v \in StatusValues :
        /\ Called("set_p")
        /\ sr' = from_bits_truncate(v)
        /\ UNCHANGED <<ac, x, y, pc, sp>>

(* peek_stack(&self), called right after CPU::new or a step(), as         *)
(* tests::stack_push_pull calls it; ret holds the byte it returned         *)
call_peek_stack ==
    /\ halted = "none"
    /\ since = {}
    /\ nsets < MaxSets
    /\ nsets' = nsets + 1
    /\ since' = since \cup {"peek_stack"}
    /\ ret' = <<peek_stack(Cpu)>>
    /\ UNCHANGED <<ac, x, y, pc, sp, sr, mem, overflow_checks, halted,
                   pre, pre2, nsteps, touched>>
    /\ UNCHANGED bus_vars

(* one call of step(): a panic ends the process and nothing is returned *)
step ==
    /\ halted = "none"
    /\ nsteps < MaxSteps
    /\ LET r == exec(Cpu)
       IN  /\ ac' = r.c.ac
           /\ x' = r.c.x
           /\ y' = r.c.y
           /\ pc' = r.c.pc
           /\ sp' = r.c.sp
           /\ sr' = r.c.sr
           /\ mem' = r.c.mem
           /\ halted' = r.c.halted
           /\ ret' = IF r.c.halted = "none" THEN <<r.cycles>> ELSE <<>>
           /\ touched' = r.c.touched
    /\ pre' = Snapshot
    /\ pre2' = pre
    /\ since' = {}
    /\ nsteps' = nsteps + 1
    /\ UNCHANGED <<overflow_checks, nsets>>
    /\ UNCHANGED bus_vars

Next ==
    step \/ set_a \/ set_x \/ set_y \/ set_pc \/ set_sp \/ set_p \/ call_peek_stack

Spec == Init /\ [][Next]_vars

----------------------------------------------------------------------------
(* The private helpers of the CPU applied on their own, as the unit tests   *)
(* of cpu.rs apply them: the host builds a CPU, sets pc, the index          *)
(* registers and the status, writes the operand bytes at pc, and calls one  *)
(* helper.                                                                  *)
HelperPcInputs == {4096, 65535}
HelperIndexInputs == {0, 1, 4, 255}
HelperLowInputs == {0, 10, 52, 241, 253, 255}
HelperHighInputs == {0, 2, 18, 255}
HelperStatusInputs == {0, 36, 255}
HelperValueInputs == {0, 1, 127, 128, 255}

InitHelper ==
    /\ pc \in HelperPcInputs
    /\ sp = 255
    /\ ac = 0
    /\ x \in HelperIndexInputs
    /\ y \in HelperIndexInputs
    /\ sr \in HelperStatusInputs
    /\ \E lo \in HelperLowInputs, hi \in HelperHighInputs :
           mem = write(write(<<>>, pc, lo), (pc + 1) % U16, hi)
    /\ overflow_checks \in BOOLEAN
    /\ halted = "none"
    /\ ret = <<>>
    /\ pre = [ac |-> 0, x |-> 0, y |-> 0, pc |-> 0, sp |-> 255, sr |-> 36,
              mem |-> <<>>, since |-> {}]
    /\ pre2 = pre
    /\ since = {}
    /\ nsteps = 0
    /\ nsets = 0
    /\ touched = <<>>
    /\ BusIdle

(* one call of the helper `name`; ret holds what it returned *)
Applied(name) ==
    /\ since = {}
    /\ since' = {name}
    /\ pre' = Snapshot
    /\ UNCHANGED <<overflow_checks, halted, pre2, nsteps, nsets, touched>>
    /\ UNCHANGED bus_vars

(* an addressing helper: r is its result on the CPU *)
Addressed(name, r) ==
    /\ Applied(name)
    /\ pc' = r.c.pc
    /\ UNCHANGED <<ac, x, y, sp, sr, mem>>

call_addr_absolute ==
    LET r == addr_absolute(Cpu)
    IN  Addressed("addr_absolute", r) /\ ret' = <<r.addr>>

call_addr_absolute_x ==
    LET r == addr_absolute_x(Cpu)
    IN  Addressed("addr_absolute_x", r) /\ ret' = <<r.addr, r.p>>

call_addr_absolute_y ==
    LET r == addr_absolute_y(Cpu)
    IN  Addressed("addr_absolute_y", r) /\ ret' = <<r.addr, r.p>>

call_addr_absolute_indirect ==
    LET c == addr_absolute_indirect(Cpu)
    IN  Addressed("addr_absolute_indirect", [c |-> c]) /\ ret' = <<>>

call_addr_zero_page ==
    LET r == addr_zero_page(Cpu)
    IN  Addressed("addr_zero_page", r) /\ ret' = <<r.addr>>

call_addr_zero_page_x ==
    LET r == addr_zero_page_x(Cpu)
    IN  Addressed("addr_zero_page_x", r) /\ ret' = <<r.addr>>

call_addr_zero_page_y ==
    LET r == addr_zero_page_y(Cpu)
    IN  Addressed("addr_zero_page_y", r) /\ ret' = <<r.addr>>

call_addr_zero_page_x_indirect ==
    LET r == addr_zero_page_x_indirect(Cpu)
    IN  Addressed("addr_zero_page_x_indirect", r) /\ ret' = <<r.addr>>

call_addr_zero_page_y_indirect ==
    LET r == addr_zero_page_y_indirect(Cpu)
    IN  Addressed("addr_zero_page_y_indirect", r) /\ ret' = <<r.addr, r.p>>

call_addr_relative ==
    LET r == addr_relative(Cpu)
    IN  Addressed("addr_relative", r) /\ ret' = <<r.addr, r.p>>

(* set_zero_and_negative_flag(value) returns nothing; ret keeps its argument *)
call_set_zero_and_negative_flag ==
    \E value \in HelperValueInputs :
        /\ Applied("set_zero_and_negative_flag")
        /\ sr' = set_zero_and_negative_flag(Cpu, value).sr
        /\ ret' = <<value>>
        /\ UNCHANGED <<ac, x, y, pc, sp, mem>>

NextHelper ==
    \/ call_addr_absolute
    \/ call_addr_absolute_x
    \/ call_addr_absolute_y
    \/ call_addr_absolute_indirect
    \/ call_addr_zero_page
    \/ call_addr_zero_page_x
    \/ call_addr_zero_page_y
    \/ call_addr_zero_page_x_indirect
    \/ call_addr_zero_page_y_indirect
    \/ call_addr_relative
    \/ call_set_zero_and_negative_flag

SpecHelper == InitHelper /\ [][NextHelper]_vars

----------------------------------------------------------------------------
(* The Bus of bus.rs, the memory the NES hands to its CPU: 2 KiB of ram and *)
(* an array of 7 ppu cells.  ram holds the cells written so far; the others *)
(* are 0, as Bus::new left them.                                            *)
ram_at(b, i) == IF i \in DOMAIN b.ram THEN b.ram[i] ELSE 0

(* Memory::read for Bus: the byte read, or the panic *)
Bus_read(b, address) ==
    IF address \in 0..2047
    THEN [val |-> ram_at(b, BitAnd(address, 2047)), halted |-> "none"]
    ELSE IF address \in 8192..8199
    THEN [val |-> b.ppu[BitAnd(address, 1)], halted |-> "none"]
    ELSE [val |-> 0, halted |-> "not_implemented"]

(* Memory::write for Bus: the Bus after the write, or the panic; an index   *)
(* outside an array panics in every build                                   *)
Bus_write(b, address, value) ==
    IF address \in 0..2047
    THEN LET i == BitAnd(address, 2047)
         IN  [b |-> [b EXCEPT !.ram = [k \in (DOMAIN b.ram) \cup {i} |->
                                          IF k = i THEN value ELSE b.ram[k]]],
              halted |-> "none"]
    ELSE IF address \in 8192..8199
    THEN LET i == BitAnd(address, 15)
         IN  IF i \in DOMAIN b.ppu
             THEN [b |-> [b EXCEPT !.ppu[i] = value], halted |-> "none"]
             ELSE [b |-> b, halted |-> "index_out_of_bounds"]
    ELSE [b |-> b, halted |-> "not_implemented"]

BusAddresses == {0, 1, 2047, 2048, 8191, 8192, 8193, 8194, 8198, 8199, 8200, 65535}
BusValues == {1, 255}

(* NES: CPU::new(Bus::new()) *)
InitBus ==
    /\ pc = 0
    /\ sp = 255
    /\ ac = 0
    /\ x = 0
    /\ y = 0
    /\ sr = BitOr(UNUSED, INTERRUPT_DISABLE)
    /\ mem = <<>>
    /\ overflow_checks \in BOOLEAN
    /\ halted = "none"
    /\ ret = <<>>
    /\ pre = [ac |-> 0, x |-> 0, y |-> 0, pc |-> 0, sp |-> 255, sr |-> 36,
              mem |-> <<>>, since |-> {}]
    /\ pre2 = pre
    /\ since = {}
    /\ nsteps = 0
    /\ nsets = 0
    /\ touched = <<>>
    /\ BusIdle

(* one call on the Bus; the CPU that owns it is not running *)
BusCalled(op, address, value) ==
    /\ halted = "none"
    /\ nbus < MaxBusCalls
    /\ nbus' = nbus + 1
    /\ bus_call' = [op |-> op, address |-> address, value |-> value,
                    before |-> bus,
                    prior |-> [op |-> bus_call.op, address |-> bus_call.address,
                               value |-> bus_call.value]]
    /\ UNCHANGED <<ac, x, y, pc, sp, sr, mem, overflow_checks, pre, pre2,
                   since, nsteps, nsets, touched>>

call_Bus_read ==
    \E address \in BusAddresses :
        LET r == Bus_read(bus, address)
        IN  /\ BusCalled("read", address, 0)
            /\ halted' = r.halted
            /\ ret' = IF r.halted = "none" THEN <<r.val>> ELSE <<>>
            /\ bus' = bus

call_Bus_write ==
    \E address \in BusAddresses, value \in BusValues :
        LET r == Bus_write(bus, address, value)
        IN  /\ BusCalled("write", address, value)
            /\ halted' = r.halted
            /\ ret' = <<>>
            /\ bus' = r.b

NextBus == call_Bus_read \/ call_Bus_write

SpecBus == InitBus /\ [][NextBus]_vars

----------------------------------------------------------------------------
(* What the properties below speak about: the last call was step(), the     *)
(* opcode it fetched, its operand bytes and the byte get_p() returns.       *)
get_p == sr

AfterStep == nsteps > 0 /\ since = {}

Opcode == read(pre.mem, pre.pc)

Operand1 == read(pre.mem, (pre.pc + 1) % 65536)

Operand2 == read(pre.mem, (pre.pc + 2) % 65536)

Returned(n) == ret = <<n>>

Flag(status, mask) == (status \div mask) % 2 = 1

(* The 16-bit word stored little-endian at zero-page address z, its second  *)
(* byte taken from inside page 0                                            *)
ZeroPageWord(z) == read(pre.mem, z) + 256 * read(pre.mem, (z + 1) % 256)

AbsoluteBase == Operand1 + 256 * Operand2

(* For a load opcode: the un-indexed base address and the effective address *)
(* of its addressing mode, as the 6502 reference defines them, on the CPU   *)
(* before the step                                                          *)
LoadBase ==
    CASE Opcode \in {169, 162, 160} -> (pre.pc + 1) % 65536
      [] Opcode \in {173, 174, 172, 189, 188, 185, 190} -> AbsoluteBase
      [] Opcode \in {165, 166, 164, 181, 180, 182} -> Operand1
      [] Opcode = 161 -> ZeroPageWord((Operand1 + pre.x) % 256)
      [] Opcode = 177 -> ZeroPageWord(Operand1)

LoadAddress ==
    CASE Opcode \in {169, 162, 160, 173, 174, 172, 165, 166, 164, 161} -> LoadBase
      [] Opcode \in {189, 188} -> (LoadBase + pre.x) % 65536
      [] Opcode \in {185, 190, 177} -> (LoadBase + pre.y) % 65536
      [] Opcode \in {181, 180} -> (LoadBase + pre.x) % 256
      [] Opcode = 182 -> (LoadBase + pre.y) % 256

PageCrossed == LoadBase \div 256 # LoadAddress \div 256

LoadTarget ==
    CASE Opcode \in {169, 173, 189, 185, 165, 181, 161, 177} -> ac
      [] Opcode \in {162, 174, 190, 166, 182} -> x
      [] Opcode \in {160, 172, 188, 164, 180} -> y

----------------------------------------------------------------------------
(* C1: in every state reachable from CPU::new through step() and the public *)
(* setters, bit 5 (Unused, 0x20) of get_p() is 1.                           *)
C1_UnusedBitAlwaysReadsOne == Flag(get_p, 32)

(* C2: step() on an opcode byte outside the 51 defined opcodes halts with   *)
(* the illegal-opcode failure, returns no cycle count, and leaves A, X, Y,  *)
(* SP, the status byte and memory as they were.                             *)
C2_IllegalOpcodeHalts ==
    (AfterStep /\ Opcode \notin DefinedOpcodes) =>
        /\ halted = "illegal_opcode"
        /\ ret = <<>>
        /\ ac = pre.ac /\ x = pre.x /\ y = pre.y /\ sp = pre.sp /\ sr = pre.sr
        /\ mem = pre.mem

C2_Witness ==
    /\ AfterStep
    /\ Opcode = 255
    /\ pre.ac = 128
    /\ pre.sp = 0
    /\ halted = "illegal_opcode"

(* C3: step() on a defined opcode runs to completion and returns a cycle    *)
(* count from every CPU state, SP = 0x00 before a push and SP = 0xFF before *)
(* a pull included.                                                         *)
C3_DefinedOpcodeNeverFails ==
    (AfterStep /\ Opcode \in DefinedOpcodes) => (halted = "none" /\ ret # <<>>)

(* C4: a push (PHA, PHP) writes the value at 0x0100 + SP and leaves         *)
(* SP' = (SP - 1) mod 256; a pull (PLA, PLP) sets SP' = (SP + 1) mod 256    *)
(* and reads the byte at 0x0100 + SP'; for every SP in 0..255.              *)
C4_StackPointerWraps ==
    AfterStep =>
        /\ Opcode \in {72, 8} =>
              /\ read(mem, 256 + pre.sp) = (IF Opcode = 72 THEN pre.ac ELSE pre.sr)
              /\ sp = (pre.sp + 255) % 256
        /\ Opcode \in {104, 40} =>
              /\ sp = (pre.sp + 1) % 256
              /\ (IF Opcode = 104 THEN ac ELSE sr)
                     = read(pre.mem, 256 + ((pre.sp + 1) % 256))

(* C5: from every SP, a push completes and a pull right after it returns    *)
(* the pushed byte and restores SP: PHA then PLA, with A overwritten by     *)
(* set_a in between, leaves A the pushed value and SP its value before PHA. *)
C5_StackRoundTrip ==
    /\ (AfterStep /\ Opcode = 72) => halted = "none"
    /\ (/\ AfterStep
        /\ nsteps >= 2
        /\ Opcode = 104
        /\ read(pre2.mem, pre2.pc) = 72
        /\ pre.since \subseteq {"set_a"}) =>
           (halted = "none" /\ ac = pre2.ac /\ sp = pre2.sp)

(* C7: a load returns its base cost plus the page-cross penalty: abs,X and  *)
(* abs,Y loads 4 + p, LDA (zp),Y 5 + p, with p = 1 iff the effective        *)
(* address is on another page than the un-indexed base; immediate 2,        *)
(* zero-page 3, zero-page-indexed 4, absolute 4, (zp,X) 6.                  *)
C7_LoadCycles ==
    (AfterStep /\ Opcode \in LoadOpcodes) =>
        LET p == IF PageCrossed THEN 1 ELSE 0
        IN  CASE Opcode \in {189, 185, 190, 188} -> Returned(4 + p)
              [] Opcode = 177 -> Returned(5 + p)
              [] Opcode \in {169, 162, 160} -> Returned(2)
              [] Opcode \in {165, 166, 164} -> Returned(3)
              [] Opcode \in {181, 182, 180} -> Returned(4)
              [] Opcode \in {173, 174, 172} -> Returned(4)
              [] Opcode = 161 -> Returned(6)

C7_Witness ==
    /\ AfterStep
    /\ Opcode = 189
    /\ AbsoluteBase = 255
    /\ pre.x = 1
    /\ LoadAddress = 256
    /\ Returned(5)

(* C8: every store returns its base cost of the 6502 timing table: STA abs  *)
(* 4, abs,X 5, abs,Y 5, zp 3, zp,X 4, (zp,X) 6, (zp),Y 6; STX abs 4, zp 3,  *)
(* zp,Y 4; STY abs 4, zp 3, zp,X 4.                                         *)
C8_StoreCycles ==
    (AfterStep /\ Opcode \in StoreOpcodes) =>
        CASE Opcode \in {141, 142, 140} -> Returned(4)
          [] Opcode \in {157, 153} -> Returned(5)
          [] Opcode \in {133, 134, 132} -> Returned(3)
          [] Opcode \in {149, 150, 148} -> Returned(4)
          [] Opcode \in {129, 145} -> Returned(6)

(* C9: every transfer, stack and shift opcode that completes returns its    *)
(* non-zero base cost: transfers 2; PHA, PHP 3; PLA, PLP 4; ASL/LSR         *)
(* accumulator 2, zero-page 5, zero-page,X 6, absolute 6, absolute,X 7.     *)
C9_ImpliedAndShiftCycles ==
    (/\ AfterStep
     /\ halted = "none"
     /\ Opcode \in TransferOpcodes \cup StackOpcodes \cup ShiftOpcodes) =>
        CASE Opcode \in TransferOpcodes -> Returned(2)
          [] Opcode \in {72, 8} -> Returned(3)
          [] Opcode \in {104, 40} -> Returned(4)
          [] Opcode \in {10, 74} -> Returned(2)
          [] Opcode \in {6, 70} -> Returned(5)
          [] Opcode \in {22, 86} -> Returned(6)
          [] Opcode \in {14, 78} -> Returned(6)
          [] Opcode \in {30, 94} -> Returned(7)

(* C10: after a load the target register holds the byte at the effective    *)
(* address of the opcode's addressing mode (the operand byte for            *)
(* immediate), Zero = (byte = 0) and Negative = bit 7 of the byte.          *)
C10_LoadResult ==
    (AfterStep /\ Opcode \in LoadOpcodes) =>
        LET byte == read(pre.mem, LoadAddress)
        IN  /\ LoadTarget = byte
            /\ Flag(get_p, 2) = (byte = 0)
            /\ Flag(get_p, 128) = (byte >= 128)

C10_Witness ==
    /\ AfterStep
    /\ Opcode = 169
    /\ Operand1 = 128
    /\ ac = 128
    /\ Flag(get_p, 128)
    /\ ~Flag(get_p, 2)
    /\ Returned(2)

----------------------------------------------------------------------------
(* What the properties of the private helpers speak about: the helper      *)
(* `name` was the one call made on the prepared CPU; pre is the CPU before  *)
(* the call.                                                                *)
HelperCalled(name) == since = {name}

HelperOperand1 == read(pre.mem, pre.pc)

HelperOperand2 == read(pre.mem, (pre.pc + 1) % 65536)

HelperBase == HelperOperand1 + 256 * HelperOperand2

IndexedResult(index) ==
    LET effective == (HelperBase + index) % 65536
    IN  <<effective,
          IF effective \div 256 # HelperBase \div 256 THEN 1 ELSE 0>>

(* C11: for every 16-bit base and 8-bit index, absolute,X and absolute,Y    *)
(* return (base + index) mod 65536, report penalty 1 iff the high byte of   *)
(* that address differs from the high byte of the base (else 0), and        *)
(* advance PC by 2.                                                         *)
C11_AbsoluteIndexed ==
    /\ HelperCalled("addr_absolute_x") =>
          ret = IndexedResult(pre.x) /\ pc = (pre.pc + 2) % 65536
    /\ HelperCalled("addr_absolute_y") =>
          ret = IndexedResult(pre.y) /\ pc = (pre.pc + 2) % 65536

(* base 0xFFFF indexed by Y = 1 (X differs) gives 0x0000 with penalty 1 *)
C11_Witness ==
    /\ HelperCalled("addr_absolute_y")
    /\ HelperBase = 65535
    /\ pre.y = 1
    /\ pre.x = 0
    /\ ret = <<0, 1>>
    /\ pc = (pre.pc + 2) % 65536

(* C12: absolute-indirect addressing reads the target's low byte at the     *)
(* pointer P given by the operand; its high byte at P & 0xFF00 when the low *)
(* byte of P is 0xFF, at P + 1 otherwise; the target becomes PC.            *)
C12_AbsoluteIndirect ==
    HelperCalled("addr_absolute_indirect") =>
        LET P == HelperBase
            low == read(pre.mem, P)
            high == IF P % 256 = 255
                    THEN read(pre.mem, (P \div 256) * 256)
                    ELSE read(pre.mem, (P + 1) % 65536)
        IN  pc = low + 256 * high

(* pointer 0x12FF: the bytes at 0x1200 and 0x1300 differ *)
C12_Witness ==
    /\ HelperCalled("addr_absolute_indirect")
    /\ HelperBase = 4863
    /\ read(pre.mem, 4608) # read(pre.mem, 4864)
    /\ pc = read(pre.mem, 4863) + 256 * read(pre.mem, 4608)

(* C13: zero-page,X and zero-page,Y give (b + i) mod 256 for operand byte b *)
(* and index i, an address in page 0; plain zero-page gives b; each         *)
(* advances PC by 1.                                                        *)
C13_ZeroPageIndexed ==
    /\ HelperCalled("addr_zero_page") =>
          ret = <<HelperOperand1>> /\ pc = (pre.pc + 1) % 65536
    /\ HelperCalled("addr_zero_page_x") =>
          /\ ret = <<(HelperOperand1 + pre.x) % 256>>
          /\ ret[1] \div 256 = 0
          /\ pc = (pre.pc + 1) % 65536
    /\ HelperCalled("addr_zero_page_y") =>
          /\ ret = <<(HelperOperand1 + pre.y) % 256>>
          /\ ret[1] \div 256 = 0
          /\ pc = (pre.pc + 1) % 65536

(* 0xFD + 0x04 gives 0x0001 *)
C13_Witness ==
    /\ HelperCalled("addr_zero_page_x")
    /\ HelperOperand1 = 253
    /\ pre.x = 4
    /\ ret = <<1>>
    /\ pc = (pre.pc + 1) % 65536

----------------------------------------------------------------------------
(* The shift instructions as the claim states them *)
ShiftAccumulator == Opcode \in {10, 74}

ShiftIsLeft == Opcode \in {10, 14, 30, 6, 22}

(* effective address of the memory variants *)
ShiftAddress ==
    CASE Opcode \in {14, 78} -> AbsoluteBase
      [] Opcode \in {30, 94} -> (AbsoluteBase + pre.x) % 65536
      [] Opcode \in {6, 70}  -> Operand1
      [] Opcode \in {22, 86} -> (Operand1 + pre.x) % 256
      [] OTHER -> 0

ShiftInput == IF ShiftAccumulator THEN pre.ac ELSE read(pre.mem, ShiftAddress)

ShiftResult == IF ShiftIsLeft THEN (2 * ShiftInput) % 256 ELSE ShiftInput \div 2

ShiftCarry == IF ShiftIsLeft THEN ShiftInput \div 128 = 1 ELSE ShiftInput % 2 = 1

(* C14: ASL gives (2*v) mod 256 with Carry = bit 7 of v, LSR gives v div 2  *)
(* with Carry = bit 0 of v; Zero = (result = 0), Negative = bit 7 of the    *)
(* result; 0A and 4A write A, the memory variants write the result back to  *)
(* the address the operand was read from and leave A unchanged.             *)
C14_ShiftResult ==
    (AfterStep /\ Opcode \in ShiftOpcodes) =>
        /\ halted = "none"
        /\ Flag(get_p, 1) = ShiftCarry
        /\ Flag(get_p, 2) = (ShiftResult = 0)
        /\ Flag(get_p, 128) = (ShiftResult \div 128 = 1)
        /\ ~ShiftIsLeft => ~Flag(get_p, 128)
        /\ IF ShiftAccumulator
           THEN ac = ShiftResult
           ELSE read(mem, ShiftAddress) = ShiftResult /\ ac = pre.ac

(* ASL of 0x80 in zero page gives 0x00 with Carry and Zero, A untouched *)
C14_Witness ==
    /\ AfterStep
    /\ Opcode = 6
    /\ ShiftInput = 128
    /\ read(mem, Operand1) = 0
    /\ Flag(get_p, 1)
    /\ Flag(get_p, 2)
    /\ ~Flag(get_p, 128)
    /\ ac = pre.ac

----------------------------------------------------------------------------
(* the byte on top of the stack before the step *)
StackTop == read(pre.mem, 256 + ((pre.sp + 1) % 256))

(* C15: for every byte v on top of the stack, after PLP the Unused bit of   *)
(* get_p() is 1 and the other seven bits of get_p() equal those of v.       *)
C15_PlpKeepsUnused ==
    (AfterStep /\ Opcode = 40 /\ halted = "none") =>
        /\ Flag(get_p, 32)
        /\ \A mask \in {1, 2, 4, 8, 16, 64, 128} :
               Flag(get_p, mask) = Flag(StackTop, mask)

(* the last two calls of step() ran PHP and then PLP, and the host called   *)
(* nothing but set_p between them                                           *)
PhpThenPlp ==
    /\ AfterStep
    /\ nsteps = 2
    /\ halted = "none"
    /\ read(pre2.mem, pre2.pc) = 8
    /\ Opcode = 40
    /\ pre.since \subseteq {"set_p"}

(* C16: PHP pushes exactly the byte get_p() returns; PHP followed by PLP,   *)
(* with any set_p in between and no other stack activity, leaves get_p()    *)
(* at its value before the PHP and SP at its value before the PHP.          *)
C16_StatusPushPull ==
    /\ (AfterStep /\ Opcode = 8 /\ halted = "none") =>
          read(mem, 256 + pre.sp) = pre.sr
    /\ PhpThenPlp => get_p = pre2.sr /\ sp = pre2.sp

(* PHP, set_p to another byte, PLP: the status before the PHP is back *)
C16_Witness ==
    /\ PhpThenPlp
    /\ pre.since = {"set_p"}
    /\ pre.sr # pre2.sr
    /\ get_p = pre2.sr
    /\ sp = pre2.sp
    /\ read(mem, 256 + pre2.sp) = pre2.sr

----------------------------------------------------------------------------
(* C17: set_zero_and_negative(value) sets Zero = (value = 0) and Negative = *)
(* bit 7 of value for every byte, and leaves Carry, Interrupt-disable,      *)
(* Decimal, Break, Unused and Overflow unchanged.                           *)
C17_ZeroAndNegativeOnly ==
    HelperCalled("set_zero_and_negative_flag") =>
        /\ Flag(get_p, 2) = (ret[1] = 0)
        /\ Flag(get_p, 128) = (ret[1] \div 128 = 1)
        /\ \A mask \in {1, 4, 8, 16, 32, 64} :
               Flag(get_p, mask) = Flag(pre.sr, mask)

(* value 0x00 on status 0xFF: Negative is cleared, Zero stays, the rest stay *)
C17_Witness ==
    /\ HelperCalled("set_zero_and_negative_flag")
    /\ ret = <<0>>
    /\ pre.sr = 255
    /\ get_p = 127

(* C18: absolute addressing returns mem[PC] + 256 * mem[(PC+1) mod 65536]   *)
(* and advances PC by 2 modulo 65536.                                       *)
C18_AbsoluteLittleEndian ==
    HelperCalled("addr_absolute") =>
        /\ ret = <<read(pre.mem, pre.pc)
                     + 256 * read(pre.mem, (pre.pc + 1) % 65536)>>
        /\ pc = (pre.pc + 2) % 65536

(* PC = 0x1000 with bytes 0x34, 0x12 returns 0x1234 and PC becomes 0x1002 *)
C18_Witness ==
    /\ HelperCalled("addr_absolute")
    /\ pre.pc = 4096
    /\ HelperOperand1 = 52
    /\ HelperOperand2 = 18
    /\ ret = <<4660>>
    /\ pc = 4098

----------------------------------------------------------------------------
(* the CPU as CPU::new returned it: no step and no setter yet *)
FreshlyConstructed == nsteps = 0 /\ nsets = 0

(* C19: a freshly constructed CPU has PC = 0, SP = 0xFF, A = X = Y = 0 and  *)
(* status exactly Interrupt-disable | Unused (0x24), every other flag       *)
(* clear.                                                                   *)
C19_FreshCpu ==
    FreshlyConstructed =>
        /\ pc = 0
        /\ sp = 255
        /\ ac = 0 /\ x = 0 /\ y = 0
        /\ get_p = 36
        /\ Flag(get_p, 4) /\ Flag(get_p, 32)
        /\ \A mask \in {1, 2, 8, 16, 64, 128} : ~Flag(get_p, mask)

(* the constructed CPU before any call *)
C19_Witness ==
    /\ FreshlyConstructed
    /\ halted = "none"
    /\ <<pc, sp, ac, x, y, get_p>> = <<0, 255, 0, 0, 0, 36>>

----------------------------------------------------------------------------
(* The transfer instructions as the claim states them *)
TransferValue ==
    CASE Opcode \in {170, 168} -> pre.ac
      [] Opcode = 186          -> pre.sp
      [] Opcode \in {138, 154} -> pre.x
      [] Opcode = 152          -> pre.y
      [] OTHER                 -> 0

(* destination = source before the step, source unchanged *)
TransferCopied ==
    CASE Opcode = 170 -> x = pre.ac /\ ac = pre.ac
      [] Opcode = 168 -> y = pre.ac /\ ac = pre.ac
      [] Opcode = 186 -> x = pre.sp /\ sp = pre.sp
      [] Opcode = 138 -> ac = pre.x /\ x = pre.x
      [] Opcode = 154 -> sp = pre.x /\ x = pre.x
      [] Opcode = 152 -> ac = pre.y /\ y = pre.y
      [] OTHER        -> FALSE

TransferFlags ==
    /\ Flag(get_p, 2) = (TransferValue = 0)
    /\ Flag(get_p, 128) = (TransferValue \div 128 = 1)

(* C20 as stated: every transfer (TAX, TAY, TSX, TXA, TXS, TYA) copies the  *)
(* source to the destination, leaves the source unchanged, and sets Zero    *)
(* and Negative from the transferred value.                                 *)
C20_EveryTransferSetsFlags ==
    (AfterStep /\ Opcode \in TransferOpcodes) =>
        halted = "none" /\ TransferCopied /\ TransferFlags

(* C20 amended: every transfer copies the source to the destination and     *)
(* leaves the source unchanged; TAX, TAY, TSX, TXA and TYA set Zero and      *)
(* Negative from the transferred value; TXS leaves the status unchanged.     *)
C20_TransfersExceptTxsSetFlags ==
    (AfterStep /\ Opcode \in TransferOpcodes) =>
        /\ halted = "none"
        /\ TransferCopied
        /\ IF Opcode = 154 THEN get_p = pre.sr ELSE TransferFlags

(* TXS of X = 0: SP becomes 0 and Zero stays clear *)
C20_Witness ==
    /\ AfterStep
    /\ Opcode = 154
    /\ pre.x = 0
    /\ sp = 0
    /\ x = 0
    /\ ~Flag(pre.sr, 2)
    /\ get_p = pre.sr

----------------------------------------------------------------------------
(* Instruction lengths as the claim states them *)
ImpliedOpcodes == TransferOpcodes \cup StackOpcodes \cup {10, 74}

AbsoluteOpcodes ==
    {173, 189, 185, 174, 190, 172, 188, 141, 157, 153, 142, 140, 14, 30, 78, 94}

InstructionLength ==
    IF Opcode \in ImpliedOpcodes THEN 1
    ELSE IF Opcode \in AbsoluteOpcodes THEN 3
    ELSE 2

(* C21: each step() on a defined opcode advances PC by the instruction      *)
(* length modulo 65536 (1 implied/accumulator, 2 immediate, zero-page,      *)
(* zero-page-indexed, (zp,X), (zp),Y, 3 absolute and absolute-indexed); an   *)
(* instruction fetched at 0xFFFF takes its operand bytes from 0x0000         *)
(* onward without failing.                                                   *)
C21_PcAdvance ==
    /\ (AfterStep /\ Opcode \in DefinedOpcodes /\ halted = "none") =>
          pc = (pre.pc + InstructionLength) % 65536
    /\ (AfterStep /\ pre.pc = 65535 /\ Opcode \in DefinedOpcodes \ StackOpcodes) =>
          /\ halted = "none"
          /\ Opcode = 169 => ac = read(pre.mem, 0)
          /\ Opcode = 173 =>
                ac = read(pre.mem, read(pre.mem, 0) + 256 * read(pre.mem, 1))

(* LDA absolute fetched at 0xFFFF: operands at 0x0000 and 0x0001, PC = 2 *)
C21_Witness ==
    /\ AfterStep
    /\ pre.pc = 65535
    /\ Opcode = 173
    /\ halted = "none"
    /\ pc = 2
    /\ ac = read(pre.mem, read(pre.mem, 0) + 256 * read(pre.mem, 1))

----------------------------------------------------------------------------
(* C22: (zp,X) addressing takes the pointer (b + X) mod 256, the low byte   *)
(* of the address at mem[ptr] and the high byte at mem[(ptr + 1) mod 256]   *)
(* (for ptr = 0xFF at 0x0000, not at 0x0100), and advances PC by 1.          *)
C22_IndexedIndirect ==
    HelperCalled("addr_zero_page_x_indirect") =>
        LET ptr == (HelperOperand1 + pre.x) % 256
        IN  /\ ret = <<read(pre.mem, ptr) + 256 * read(pre.mem, (ptr + 1) % 256)>>
            /\ pc = (pre.pc + 1) % 65536

(* pointer 0xFF: the bytes at 0x0000 and 0x0100 differ *)
C22_Witness ==
    /\ HelperCalled("addr_zero_page_x_indirect")
    /\ (HelperOperand1 + pre.x) % 256 = 255
    /\ pre.x # 0
    /\ read(pre.mem, 0) # read(pre.mem, 256)
    /\ ret = <<read(pre.mem, 255) + 256 * read(pre.mem, 0)>>

(* C23: (zp),Y addressing takes the base mem[z] + 256 * mem[(z + 1) mod      *)
(* 256], returns (base + Y) mod 65536, and reports penalty 1 iff the high    *)
(* bytes of base and effective address differ.                               *)
C23_IndirectIndexed ==
    HelperCalled("addr_zero_page_y_indirect") =>
        LET z == HelperOperand1
            base == read(pre.mem, z) + 256 * read(pre.mem, (z + 1) % 256)
            effective == (base + pre.y) % 65536
        IN  ret = <<effective,
                    IF effective \div 256 # base \div 256 THEN 1 ELSE 0>>

(* base 0x02FF with Y = 1 gives 0x0300 with penalty 1 *)
C23_Witness ==
    /\ HelperCalled("addr_zero_page_y_indirect")
    /\ read(pre.mem, HelperOperand1) = 255
    /\ read(pre.mem, (HelperOperand1 + 1) % 256) = 2
    /\ pre.y = 1
    /\ ret = <<768, 1>>

(* C24: relative addressing reads the offset o as a signed byte, returns     *)
(* ((PC + 1) + o) mod 65536, sets PC to it, and reports penalty 1 iff its    *)
(* high byte differs from the high byte of PC + 1.                           *)
C24_Relative ==
    HelperCalled("addr_relative") =>
        LET o == IF HelperOperand1 >= 128 THEN HelperOperand1 - 256
                 ELSE HelperOperand1
            next == (pre.pc + 1) % 65536
            effective == (next + o + 65536) % 65536
        IN  /\ ret = <<effective,
                       IF effective \div 256 # next \div 256 THEN 1 ELSE 0>>
            /\ pc = effective

(* PC = 0x1000 with offset -15 gives 0x0FF2 with penalty 1 *)
C24_Witness ==
    /\ HelperCalled("addr_relative")
    /\ pre.pc = 4096
    /\ HelperOperand1 = 241
    /\ ret = <<4082, 1>>
    /\ pc = 4082

----------------------------------------------------------------------------
(* Sequences of stack instructions: what a push stored and a pull fetched *)
IsPush(op) == op \in {72, 8}

IsPull(op) == op \in {104, 40}

Opcode2 == read(pre2.mem, pre2.pc)

(* the byte the first of two steps pushed, the byte the last step pulled *)
Pushed2 == IF Opcode2 = 72 THEN pre2.ac ELSE pre2.sr

Pulled == IF Opcode = 104 THEN ac ELSE sr

NoSpWriteBetween == nsteps >= 2 /\ "set_sp" \notin pre.since

(* C25: from any SP, after k pushes with no SP write in between,            *)
(* SP = (SP0 - k) mod 256 and the last pushed byte sits at                  *)
(* 0x0100 + ((SP + 1) mod 256); the pulls that follow return the bytes in   *)
(* reverse order and restore SP0; pushes and pulls wrap silently (k = 1, 2). *)
C25_StackDiscipline ==
    AfterStep =>
        /\ IsPush(Opcode) =>
              /\ halted = "none"
              /\ sp = (pre.sp + 255) % 256
              /\ read(mem, 256 + ((sp + 1) % 256))
                     = (IF Opcode = 72 THEN pre.ac ELSE pre.sr)
        /\ (NoSpWriteBetween /\ IsPush(Opcode2) /\ IsPush(Opcode)) =>
              /\ sp = (pre2.sp + 254) % 256
              /\ read(mem, 256 + pre2.sp) = Pushed2
        /\ (NoSpWriteBetween /\ IsPush(Opcode2) /\ IsPull(Opcode)) =>
              /\ halted = "none"
              /\ Pulled = Pushed2
              /\ sp = pre2.sp

----------------------------------------------------------------------------
(* the registers a load does not target keep their value *)
LoadKeepsOtherRegisters ==
    CASE Opcode \in {169, 173, 189, 185, 165, 181, 161, 177} ->
             x = pre.x /\ y = pre.y
      [] Opcode \in {162, 174, 190, 166, 182} -> ac = pre.ac /\ y = pre.y
      [] Opcode \in {160, 172, 188, 164, 180} -> ac = pre.ac /\ x = pre.x
      [] OTHER -> FALSE

(* C26: for every load opcode step() leaves Carry, Interrupt-disable,       *)
(* Decimal, Break, Unused and Overflow unchanged, leaves SP and the two     *)
(* registers it does not load unchanged, and writes no memory.              *)
C26_LoadFrame ==
    (AfterStep /\ Opcode \in LoadOpcodes) =>
        /\ \A mask \in {1, 4, 8, 16, 32, 64} :
               Flag(get_p, mask) = Flag(pre.sr, mask)
        /\ sp = pre.sp
        /\ LoadKeepsOtherRegisters
        /\ mem = pre.mem

(* LDX #v with A = 0x80 and every flag set: A, Carry and Overflow stay *)
C26_Witness ==
    /\ AfterStep
    /\ Opcode = 162
    /\ pre.ac = 128
    /\ pre.sr = 255
    /\ x = Operand1
    /\ x # pre.x
    /\ ac = 128
    /\ Flag(get_p, 1) /\ Flag(get_p, 64)
    /\ mem = pre.mem

----------------------------------------------------------------------------
(* For a store opcode: the effective address and the register stored, on    *)
(* the CPU before the step                                                  *)
StoreAddress ==
    CASE Opcode \in {141, 142, 140} -> AbsoluteBase
      [] Opcode = 157 -> (AbsoluteBase + pre.x) % 65536
      [] Opcode = 153 -> (AbsoluteBase + pre.y) % 65536
      [] Opcode \in {133, 134, 132} -> Operand1
      [] Opcode \in {149, 148} -> (Operand1 + pre.x) % 256
      [] Opcode = 150 -> (Operand1 + pre.y) % 256
      [] Opcode = 129 -> ZeroPageWord((Operand1 + pre.x) % 256)
      [] Opcode = 145 -> (ZeroPageWord(Operand1) + pre.y) % 65536
      [] OTHER -> 0

StoreSource ==
    CASE Opcode \in {141, 157, 153, 133, 149, 129, 145} -> pre.ac
      [] Opcode \in {142, 134, 150} -> pre.x
      [] OTHER -> pre.y

(* C27: a store writes the source register at the effective address of its  *)
(* addressing mode and changes nothing else: A, X, Y, SP and the status      *)
(* byte are unchanged, every other memory location keeps its value, and     *)
(* only PC advances.                                                         *)
C27_StoreFrame ==
    (AfterStep /\ Opcode \in StoreOpcodes) =>
        /\ halted = "none"
        /\ ac = pre.ac /\ x = pre.x /\ y = pre.y
        /\ sp = pre.sp
        /\ get_p = pre.sr
        /\ \A a \in (DOMAIN mem) \cup (DOMAIN pre.mem) \cup {StoreAddress} :
               read(mem, a) = (IF a = StoreAddress THEN StoreSource
                               ELSE read(pre.mem, a))
        /\ pc = (pre.pc + InstructionLength) % 65536

(* STA 0x00FF,X with X = 1 and A = 0x80 writes 0x80 at 0x0100 and no flag *)
C27_Witness ==
    /\ AfterStep
    /\ Opcode = 157
    /\ AbsoluteBase = 255
    /\ pre.x = 1
    /\ pre.ac = 128
    /\ read(pre.mem, 256) # 128
    /\ read(mem, 256) = 128
    /\ get_p = pre.sr
    /\ ~Flag(get_p, 128)

----------------------------------------------------------------------------
(* C28: every memory access of a stack push or pull (PHA, PHP, PLA, PLP)    *)
(* targets the stack page 0x0100..0x01FF: 0x0100 + SP for a push and        *)
(* 0x0100 + ((SP + 1) mod 256) for a pull, for every reachable SP.          *)
C28_StackPage ==
    AfterStep =>
        /\ \A i \in DOMAIN touched : touched[i] \in 256..511
        /\ IsPush(Opcode) => touched = <<256 + pre.sp>>
        /\ (IsPull(Opcode) /\ touched # <<>>) =>
              touched = <<256 + ((pre.sp + 1) % 256)>>

(* a pull at SP = 0xFF that completes reads 0x0100 *)
C28_Witness ==
    /\ AfterStep
    /\ IsPull(Opcode)
    /\ pre.sp = 255
    /\ halted = "none"
    /\ touched = <<256>>
    /\ sp = 0

----------------------------------------------------------------------------
(* What the properties of the Bus speak about *)
BusMapped(address) == address \in (0..2047) \cup (8192..8199)

BusCallMade == bus_call.op # "none"

(* C29: read(a) and write(a, v) on the Bus complete for every a in          *)
(* 0x0000..0x07FF and 0x2000..0x2007 (0x2007 included) and halt with the     *)
(* 'not implemented' failure, changing nothing, for every other address.    *)
C29_BusMappedRanges ==
    BusCallMade =>
        /\ BusMapped(bus_call.address) => halted = "none"
        /\ ~BusMapped(bus_call.address) =>
              halted = "not_implemented" /\ bus = bus_call.before

(* the addresses at which two Buses can read differently: the ppu range and *)
(* the ram cells written in either                                          *)
BusCells(b1, b2) == (DOMAIN b1.ram) \cup (DOMAIN b2.ram) \cup (8192..8199)

(* C30: on every mapped address a, write(a, v) followed by read(a) returns  *)
(* v, and a write to a leaves the value read at every other mapped address  *)
(* unchanged.                                                               *)
C30_BusIsMemory ==
    /\ (/\ bus_call.op = "read"
        /\ bus_call.prior.op = "write"
        /\ bus_call.prior.address = bus_call.address
        /\ halted = "none") =>
           ret = <<bus_call.prior.value>>
    /\ (bus_call.op = "write" /\ halted = "none") =>
           \A a \in BusCells(bus, bus_call.before) \ {bus_call.address} :
               Bus_read(bus, a).val = Bus_read(bus_call.before, a).val

----------------------------------------------------------------------------
(* peek_stack was the one call made since construction or the last step() *)
Peeked == since = {"peek_stack"} /\ halted = "none"

(* C31: for every SP, peek_stack returns the byte the next pull would       *)
(* return, the byte at 0x0100 + ((SP + 1) mod 256), and changes neither SP  *)
(* nor memory; right after PHA it returns the pushed accumulator value.     *)
C31_PeekStack ==
    /\ Peeked => ret = <<read(mem, 256 + ((sp + 1) % 256))>>
    /\ (Peeked /\ nsteps > 0 /\ Opcode = 72) =>
          /\ ret = <<pre.ac>>
          /\ sp = (pre.sp + 255) % 256
          /\ read(mem, 256 + pre.sp) = pre.ac

====
